---------------------------- MODULE Spec2Model ----------------------------
(***************************************************************************)
(* Model of the article pipeline of the search-pubmed and                 *)
(* get-related-articles edge functions: the request handlers,             *)
(* parseArticles, normalizeString, levenshteinDistance,                   *)
(* calculateSimilarity and deduplicateArticles, and handleSearch of the   *)
(* search page; and of the network views: fetchRelatedArticles,           *)
(* visibleArticles and visibleLinks of the canvas view, findPath of the   *)
(* d3 view.                                                               *)
(*                                                                         *)
(* A JavaScript string is modelled as a sequence of one-character strings, *)
(* so that case folding, punctuation stripping, splitting and the edit     *)
(* distance are computed character by character, as the code does.         *)
(***************************************************************************)
EXTENDS Integers, Sequences, FiniteSets, Bags, TLC

VARIABLES
    articles,    \* argument of the running deduplicateArticles call
    idx,         \* number of articles the for-of loop has consumed
    uniqueMap,   \* the Map uniqueMap: entries [key, value] in insertion order
    doiMap,      \* the Map doiMap: entries [key, value] in insertion order
    accepted,    \* history: the articles stored by a set(), in acceptance order
    pc,          \* "loop" | "returned" | "reapplied"
    result,      \* value returned by the call
    again,       \* value returned by deduplicateArticles(result)
    str1, str2,  \* arguments of a levenshteinDistance call
    distance,    \* [fwd, rev]: levenshteinDistance(str1,str2), (str2,str1)
    similarity,  \* calculateSimilarity(str1, str2), as [num, den]
    lpc,         \* "input" | "computed" | "scored"
    xmlText,       \* argument of the running parseArticles call
    blocksIn,      \* history: the articles the markup was rendered from
    articleBlocks, \* the matches of articlePattern
    bidx,          \* number of blocks the for-of loop has consumed
    parsed,        \* the array articles of parseArticles
    thrown,        \* history: positions of the blocks whose extraction threw
    ppc,           \* "start" | "loop" | "returned"
    fn,            \* the edge function that serves the request
    method,        \* req.method
    upstream,      \* what the request body, esearch/elink, efetch and the
                   \* page's own fetch will answer
    hpc,           \* position of the handler and of handleSearch
    pmids,         \* pmids / relatedPmids
    efetchText,    \* xmlText of the handler
    extracted,     \* articles, then uniqueArticles, of the handler
    response,      \* the Response returned: [status, body]
    calls,         \* history: the calls the handler has made
    pageArticles,  \* state articles of the search page
    loading,       \* state loading of the search page
    raw,           \* argument of a normalizeString call
    normalized,    \* what the call returned
    npc,           \* "input" | "normalized"
    frames,        \* the locals of each running deduplicateArticles call
    allArticles,   \* canvas view: state allArticles, as the pmids in order
    expandedNodes, \* canvas view: state expandedNodes
    loadingNode,   \* canvas view: state loadingNode
    allLinks,      \* canvas view: state allLinks, as [source, target]
    inFlight,      \* canvas view: the fetchRelatedArticles calls waiting at
                   \* their await, as a bag of [pmid, existingPmids]
    renders,       \* canvas view: number of times the articles prop changed
    settled,       \* canvas view, history: the call that settled last and
                   \* what it settled with, as [pmid, error, articles]
    graphLinks,    \* d3 view: state allLinks read by findPath
    startId,       \* argument of the running findPath call
    maxDepth,      \* argument of the running findPath call
    visited,       \* the Set visited
    queue,         \* the array queue of [nodeId, depth]
    pathNodes,     \* the Set pathNodes
    pathLinks,     \* the Set pathLinks
    fpc            \* "loop" | "returned"

dedupVars == <<articles, idx, uniqueMap, doiMap, accepted, pc, result, again>>
levVars   == <<str1, str2, distance, similarity, lpc>>
parseVars == <<xmlText, blocksIn, articleBlocks, bidx, parsed, thrown, ppc>>
handlerVars == <<fn, method, upstream, hpc, pmids, efetchText, extracted,
                 response, calls, pageArticles, loading>>
normVars  == <<raw, normalized, npc>>
canvasVars == <<allArticles, expandedNodes, loadingNode, allLinks, inFlight,
                renders, settled>>
pathVars  == <<graphLinks, startId, maxDepth, visited, queue, pathNodes,
               pathLinks, fpc>>
vars      == <<dedupVars, levVars, parseVars, handlerVars, normVars, frames,
               canvasVars, pathVars>>

\* the variables a specification leaves alone
exceptDedup   == <<levVars, parseVars, handlerVars, normVars, frames,
                   canvasVars, pathVars>>
exceptLev     == <<dedupVars, parseVars, handlerVars, normVars, frames,
                   canvasVars, pathVars>>
exceptParse   == <<dedupVars, levVars, handlerVars, normVars, frames,
                   canvasVars, pathVars>>
exceptHandler == <<dedupVars, levVars, parseVars, normVars, frames,
                   canvasVars, pathVars>>
exceptNorm    == <<dedupVars, levVars, parseVars, handlerVars, frames,
                   canvasVars, pathVars>>

\* the variables of the calls a specification does not make
DedupIdle ==
    /\ articles = <<>> /\ idx = 0 /\ uniqueMap = <<>> /\ doiMap = <<>>
    /\ accepted = <<>> /\ pc = "idle" /\ result = <<>> /\ again = <<>>

LevIdle ==
    /\ str1 = <<>> /\ str2 = <<>> /\ distance = [fwd |-> 0, rev |-> 0]
    /\ similarity = [num |-> 0, den |-> 1]
    /\ lpc = "idle"

FramesIdle == frames = <<>>

NormIdle == raw = <<>> /\ normalized = <<>> /\ npc = "idle"

exceptCanvas == <<dedupVars, levVars, parseVars, handlerVars, normVars, frames,
                  pathVars>>
exceptPath   == <<dedupVars, levVars, parseVars, handlerVars, normVars, frames,
                  canvasVars>>

CanvasIdle ==
    /\ allArticles = <<>> /\ expandedNodes = {} /\ loadingNode = "null"
    /\ allLinks = <<>> /\ inFlight = <<>>
    /\ renders = 0 /\ settled = <<>>

PathIdle ==
    /\ graphLinks = <<>> /\ startId = "null" /\ maxDepth = 0
    /\ visited = {} /\ queue = <<>> /\ pathNodes = {} /\ pathLinks = {}
    /\ fpc = "idle"

ParseIdle ==
    /\ xmlText = <<>> /\ blocksIn = <<>> /\ articleBlocks = <<>> /\ bidx = 0
    /\ parsed = <<>> /\ thrown = {} /\ ppc = "idle"

(***************************************************************************)
(* JavaScript values                                                       *)
(***************************************************************************)
\* null / undefined: falsy, and not of type string.  It is not a sequence of
\* characters, since "null" is not a single character.
Null == <<"null">>

Empty == <<>>

\* typeof v === 'string'
IsString(v) == v # Null

\* JavaScript truthiness of a value that is a string, null or undefined
Truthy(v) == v # Null /\ v # Empty

LowerChars == <<"a","b","c","d","e","f","g","h","i","j","k","l","m",
                "n","o","p","q","r","s","t","u","v","w","x","y","z">>
UpperChars == <<"A","B","C","D","E","F","G","H","I","J","K","L","M",
                "N","O","P","Q","R","S","T","U","V","W","X","Y","Z">>
DigitChars == <<"0","1","2","3","4","5","6","7","8","9">>

Range(s) == {s[i] : i \in DOMAIN s}

\* the regular-expression class \w : [A-Za-z0-9_]
WordChars == Range(LowerChars) \cup Range(UpperChars) \cup Range(DigitChars) \cup {"_"}

IsWordChar(c) == c \in WordChars

\* the regular-expression class \s
SpaceChars == {" ", "\t", "\n", "\r"}

IsSpaceChar(c) == c \in SpaceChars

\* String.prototype.toLowerCase on the upper-case letters
LowerCaseOf == [c \in Range(UpperChars) |->
                   LowerChars[CHOOSE i \in DOMAIN UpperChars : UpperChars[i] = c]]

LowerOf(c) == IF c \in DOMAIN LowerCaseOf THEN LowerCaseOf[c] ELSE c

ToLowerCase(s) == [i \in DOMAIN s |-> LowerOf(s[i])]

\* .replace(/[^\w\s]/g, '')
RemovePunctuation(s) == SelectSeq(s, LAMBDA c : IsWordChar(c) \/ IsSpaceChar(c))

\* .replace(/\s+/g, ' ') : every maximal run of whitespace becomes one space
RECURSIVE CollapseWhitespace(_)
CollapseWhitespace(s) ==
    IF s = <<>> THEN <<>>
    ELSE IF IsSpaceChar(Head(s))
         THEN IF Len(s) > 1 /\ IsSpaceChar(s[2])
              THEN CollapseWhitespace(Tail(s))
              ELSE <<" ">> \o CollapseWhitespace(Tail(s))
         ELSE <<Head(s)>> \o CollapseWhitespace(Tail(s))

\* String.prototype.trim
RECURSIVE TrimStart(_)
TrimStart(s) ==
    IF s # <<>> /\ IsSpaceChar(Head(s)) THEN TrimStart(Tail(s)) ELSE s

RECURSIVE TrimEnd(_)
TrimEnd(s) ==
    IF s # <<>> /\ IsSpaceChar(s[Len(s)])
    THEN TrimEnd(SubSeq(s, 1, Len(s) - 1)) ELSE s

Trim(s) == TrimEnd(TrimStart(s))

\* a normalization that keeps the case of letters
normalizeStringKeepCase(str) ==
    Trim(CollapseWhitespace(RemovePunctuation(str)))

normalizeString(str) ==
    Trim(CollapseWhitespace(RemovePunctuation(ToLowerCase(str))))

\* String.prototype.includes, for a one-character needle
Includes(s, c) == \E i \in DOMAIN s : s[i] = c

\* String.prototype.split, for a one-character separator
RECURSIVE Split(_, _)
Split(s, sep) ==
    IF ~Includes(s, sep) THEN <<s>>
    ELSE LET i == CHOOSE k \in DOMAIN s :
                     s[k] = sep /\ \A m \in 1..(k - 1) : s[m] # sep
         IN  <<SubSeq(s, 1, i - 1)>> \o Split(SubSeq(s, i + 1, Len(s)), sep)

\* array destructuring: a missing element is undefined
ElementAt(parts, n) == IF n <= Len(parts) THEN parts[n] ELSE Null

(***************************************************************************)
(* levenshteinDistance                                                     *)
(***************************************************************************)
Min3(a, b, c) ==
    IF a <= b /\ a <= c THEN a ELSE IF b <= c THEN b ELSE c

\* a cell that forgets the cost of a substitution
LevCellFreeSubstitution(diag, left, up, same) ==
    IF same THEN diag ELSE Min3(diag, left + 1, up + 1)

\* a cell that charges two for extending str1's side
LevCellCostlyLeft(diag, left, up, same) ==
    IF same THEN diag ELSE Min3(diag + 1, left + 2, up + 1)

\* matrix[i][j] from matrix[i-1][j-1], matrix[i][j-1], matrix[i-1][j]
LevCell(diag, left, up, same) ==
    IF same THEN diag ELSE Min3(diag + 1, left + 1, up + 1)

\* for (i = 0..str2.length) matrix[i] = [i];  for (j = 0..str1.length) matrix[0][j] = j
\* Row i and column j of the code are at indices i+1 and j+1.
LevInit(s1, s2) ==
    [i \in 1..(Len(s2) + 1) |->
        IF i = 1 THEN [j \in 1..(Len(s1) + 1) |-> j - 1] ELSE <<i - 1>>]

\* the inner loop  for (j = 1; j <= str1.length; j++)  of row i: the next
\* column j is the number of cells row i holds so far
RECURSIVE LevRow(_, _, _, _)
LevRow(matrix, s1, s2, i) ==
    IF Len(matrix[i + 1]) > Len(s1) THEN matrix
    ELSE LET j    == Len(matrix[i + 1])
             cell == LevCell(matrix[i][j], matrix[i + 1][j], matrix[i][j + 1],
                             s2[i] = s1[j])
         IN  LevRow([matrix EXCEPT ![i + 1] = Append(@, cell)], s1, s2, i)

\* the outer loop  for (i = 1; i <= str2.length; i++) ; matrix has
\* str2.length + 1 rows
RECURSIVE LevRows(_, _, _, _)
LevRows(matrix, s1, s2, i) ==
    IF i > Len(matrix) - 1 THEN matrix
    ELSE LevRows(LevRow(matrix, s1, s2, i), s1, s2, i + 1)

levenshteinDistance(s1, s2) ==
    LevRows(LevInit(s1, s2), s1, s2, 1)[Len(s2) + 1][Len(s1) + 1]


(***************************************************************************)
(* calculateSimilarity                                                     *)
(***************************************************************************)
\* The returned number is the exact quotient num/den of two integers; it is
\* kept as that pair.  The double nearest to 17/20 is the literal 0.85, and
\* every other quotient of lengths differs from 0.85 by far more than an ulp,
\* so comparing the pair with 85/100 decides  similarity > 0.85  as the code does.
\* a similarity that divides by the length of the shorter string
calculateSimilarityByShorter(s1, s2) ==
    LET longer  == IF Len(s1) > Len(s2) THEN s1 ELSE s2
        shorter == IF Len(s1) > Len(s2) THEN s2 ELSE s1
    IN  IF Len(longer) = 0 THEN [num |-> 1, den |-> 1]
        ELSE [num |-> Len(longer) - levenshteinDistance(longer, shorter),
              den |-> IF Len(shorter) > 0 THEN Len(shorter) ELSE Len(longer)]

calculateSimilarity(s1, s2) ==
    LET longer  == IF Len(s1) > Len(s2) THEN s1 ELSE s2
        shorter == IF Len(s1) > Len(s2) THEN s2 ELSE s1
    IN  IF Len(longer) = 0 THEN [num |-> 1, den |-> 1]
        ELSE [num |-> Len(longer) - levenshteinDistance(longer, shorter),
              den |-> Len(longer)]

\* the literal 0.85, in hundredths
ThresholdPercent == 85

\* a threshold test that also merges at exactly 0.85
AboveThresholdInclusive(sim) == sim.num * 100 >= ThresholdPercent * sim.den

\* similarity > 0.85
AboveThreshold(sim) == sim.num * 100 > ThresholdPercent * sim.den

(***************************************************************************)
(* Map                                                                     *)
(***************************************************************************)
\* A Map is the sequence of its entries in insertion order.
MapHas(m, k) == \E i \in DOMAIN m : m[i].key = k

\* Map.prototype.set: an existing key keeps its position and gets the new value
MapSet(m, k, v) ==
    IF MapHas(m, k)
    THEN [i \in DOMAIN m |-> IF m[i].key = k THEN [key |-> k, value |-> v] ELSE m[i]]
    ELSE Append(m, [key |-> k, value |-> v])

\* Array.from(m.values())
MapValues(m) == [i \in DOMAIN m |-> m[i].value]

(***************************************************************************)
(* deduplicateArticles                                                     *)
(***************************************************************************)
\* An article is a record [pmid, title, authors, journal?, ..., doi, year];
\* only the fields deduplicateArticles reads are kept.  The loop state is
\* [uniqueMap, doiMap].

\* article.doi && article.doi.trim() !== ''
\* a test that takes every doi other than null for a DOI
HasDoiNotNull(article) == article.doi # Null

\* line 148
HasDoi(article) == Truthy(article.doi) /\ Trim(article.doi) # Empty

\* a DOI recorded and looked up as written
DoiKeyRaw(article) == article.doi

\* normalizedDoi
DoiKey(article) == normalizeString(article.doi)

\* a first tier that stores a copy with the normalized DOI
Tier1StoringNormalized(st, article) ==
    IF MapHas(st.doiMap, DoiKey(article)) THEN st
    ELSE [uniqueMap |-> MapSet(st.uniqueMap, article.pmid,
                               [article EXCEPT !.doi = DoiKey(article)]),
          doiMap    |-> MapSet(st.doiMap, DoiKey(article), TRUE)]

\* Priority 1 : lines 149-155
Tier1(st, article) ==
    IF MapHas(st.doiMap, DoiKey(article)) THEN st
    ELSE [uniqueMap |-> MapSet(st.uniqueMap, article.pmid, article),
          doiMap    |-> MapSet(st.doiMap, DoiKey(article), TRUE)]

NormalizedTitle(article) == normalizeString(article.title)

FirstAuthor(article) ==
    IF Len(article.authors) > 0 THEN normalizeString(article.authors[1]) ELSE Empty

\* article.year || ''
YearOf(article) == IF Truthy(article.year) THEN article.year ELSE Empty

CompositeKey(article) ==
    NormalizedTitle(article) \o <<"|">> \o FirstAuthor(article) \o <<"|">> \o YearOf(article)

\* one iteration of the scan of uniqueMap.entries(): lines 176-186
FuzzyMatch(key, article) ==
    /\ IsString(key)
    /\ Includes(key, "|")
    /\ LET parts == Split(key, "|")
       IN  /\ ElementAt(parts, 2) = FirstAuthor(article)
           /\ ElementAt(parts, 3) = YearOf(article)
           /\ AboveThreshold(calculateSimilarity(NormalizedTitle(article),
                                                 ElementAt(parts, 1)))

\* isDuplicate after the scan
IsDuplicate(m, article) == \E i \in DOMAIN m : FuzzyMatch(m[i].key, article)

\* a Tier 2 that keeps the latest record of a fuzzy match under the old key
Tier2KeepLatest(st, article) ==
    IF MapHas(st.uniqueMap, CompositeKey(article)) THEN st
    ELSE IF IsDuplicate(st.uniqueMap, article)
         THEN LET i == CHOOSE k \in DOMAIN st.uniqueMap :
                           /\ FuzzyMatch(st.uniqueMap[k].key, article)
                           /\ \A m \in 1..(k - 1) :
                                  ~FuzzyMatch(st.uniqueMap[m].key, article)
              IN  [st EXCEPT !.uniqueMap =
                       MapSet(@, st.uniqueMap[i].key, article)]
         ELSE [st EXCEPT !.uniqueMap = MapSet(@, CompositeKey(article), article)]

\* a Tier 2 without the fuzzy scan
Tier2ExactOnly(st, article) ==
    IF MapHas(st.uniqueMap, CompositeKey(article)) THEN st
    ELSE [st EXCEPT !.uniqueMap = MapSet(@, CompositeKey(article), article)]

\* Priority 2 : lines 159-192
Tier2(st, article) ==
    IF MapHas(st.uniqueMap, CompositeKey(article)) THEN st
    ELSE IF IsDuplicate(st.uniqueMap, article) THEN st
         ELSE [st EXCEPT !.uniqueMap = MapSet(@, CompositeKey(article), article)]

\* the body of  for (const article of articles)
LoopBody(st, article) ==
    IF HasDoi(article) THEN Tier1(st, article) ELSE Tier2(st, article)

RECURSIVE Loop(_, _, _)
Loop(st, xs, i) ==
    IF i > Len(xs) THEN st ELSE Loop(LoopBody(st, xs[i]), xs, i + 1)

EmptyMaps == [uniqueMap |-> <<>>, doiMap |-> <<>>]

deduplicateArticles(xs) == MapValues(Loop(EmptyMaps, xs, 1).uniqueMap)

(***************************************************************************)
(* Markup text and the regular expressions of parseArticles               *)
(***************************************************************************)
\* Markup text is a sequence of symbols: a symbol is one character of text
\* or one whole tag.  Text characters are never '<' or '>', so a tag is
\* exactly what /<[^>]*>/ matches.
LineTerminators == {"\n", "\r"}

\* /<PubmedArticle>/i and /<\/PubmedArticle>/i
ArticleOpen  == {"<PubmedArticle>", "<pubmedarticle>"}
ArticleClose == {"</PubmedArticle>", "</pubmedarticle>"}

\* A pattern is a sequence of steps.  Step 1 is a class of symbols; every
\* later step is a lazy gap followed by a class of symbols: [\s\S]*? when
\* dotall, .*? otherwise.
Step(dotall, cls) == [dotall |-> dotall, cls |-> cls]

\* the patterns of lines 68-110; the flag i makes them match lower case too
articlePattern == <<Step(TRUE, ArticleOpen), Step(TRUE, ArticleClose)>>
pmidPattern ==
    <<Step(TRUE, {"<PMID>", "<PMID Version=\"1\">", "<pmid>"}),
      Step(FALSE, {"</PMID>", "</pmid>"})>>
titlePattern ==
    <<Step(TRUE, {"<ArticleTitle>"}), Step(TRUE, {"</ArticleTitle>"})>>
abstractPattern ==
    <<Step(TRUE, {"<AbstractText>", "<AbstractText Label=\"METHODS\">"}),
      Step(TRUE, {"</AbstractText>"})>>
\* /<Author[^>]*>/ matches the list tag as well as the author tag
authorPattern ==
    <<Step(TRUE, {"<Author>", "<Author ValidYN=\"Y\">", "<AuthorList>"}),
      Step(TRUE, {"<LastName>"}), Step(FALSE, {"</LastName>"}),
      Step(TRUE, {"<ForeName>"}), Step(FALSE, {"</ForeName>"}),
      Step(TRUE, {"</Author>"})>>
journalPattern == <<Step(TRUE, {"<Title>"}), Step(FALSE, {"</Title>"})>>
yearPattern ==
    <<Step(TRUE, {"<PubDate>"}), Step(TRUE, {"<Year>"}), Step(FALSE, {"</Year>"})>>
monthPattern ==
    <<Step(TRUE, {"<PubDate>"}), Step(TRUE, {"<Month>"}), Step(FALSE, {"</Month>"})>>
doiPattern ==
    <<Step(TRUE, {"<ArticleId IdType=\"doi\">"}), Step(FALSE, {"</ArticleId>"})>>

\* all tags: those the patterns name and those they do not
Tags ==
    UNION { UNION {pat[i].cls : i \in DOMAIN pat} :
                pat \in {articlePattern, pmidPattern, titlePattern,
                         abstractPattern, authorPattern, journalPattern,
                         yearPattern, monthPattern, doiPattern} }
    \cup {"<PubmedArticleSet>", "</PubmedArticleSet>", "<Journal>", "</Journal>",
          "</PubDate>", "<Abstract>", "</Abstract>", "</AuthorList>",
          "<ArticleIdList>", "</ArticleIdList>", "<ArticleId IdType=\"pubmed\">",
          "<i>", "</i>", "<ERROR>", "</ERROR>"}

\* .replace(/<[^>]*>/g, '')
StripTags(s) == SelectSeq(s, LAMBDA c : c \notin Tags)

NoMatch == <<0>>

\* The positions of the symbols matched by steps k.. of pat, the gap of step
\* k starting at position p.  A lazy gap takes the nearest closing symbol
\* with which the rest of the pattern still matches (backtracking).
RECURSIVE MatchSteps(_, _, _, _)
MatchSteps(s, p, pat, k) ==
    IF k > Len(pat) THEN <<>>
    ELSE LET GapOk(j) == pat[k].dotall
                            \/ \A q \in p..(j - 1) : s[q] \notin LineTerminators
             cands == {j \in p..Len(s) :
                          /\ s[j] \in pat[k].cls
                          /\ GapOk(j)
                          /\ MatchSteps(s, j + 1, pat, k + 1) # NoMatch}
         IN  IF cands = {} THEN NoMatch
             ELSE LET j == CHOOSE x \in cands : \A y \in cands : x <= y
                  IN  <<j>> \o MatchSteps(s, j + 1, pat, k + 1)

\* RegExp.prototype.exec from position `from': the leftmost match
Exec(s, from, pat) ==
    LET starts == {i \in from..Len(s) :
                      /\ s[i] \in pat[1].cls
                      /\ MatchSteps(s, i + 1, pat, 2) # NoMatch}
    IN  IF starts = {} THEN NoMatch
        ELSE LET i == CHOOSE x \in starts : \A y \in starts : x <= y
             IN  <<i>> \o MatchSteps(s, i + 1, pat, 2)

\* the text of the gap before step k of a match m: a capture group
Group(s, m, k) == SubSeq(s, m[k - 1] + 1, m[k] - 1)

\* the whole matched text
Matched(s, m) == SubSeq(s, m[1], m[Len(m)])

\* all matches of a global pattern, left to right, each search starting
\* after the previous match
RECURSIVE AllMatches(_, _, _)
AllMatches(s, from, pat) ==
    LET m == Exec(s, from, pat)
    IN  IF m = NoMatch THEN <<>>
        ELSE <<m>> \o AllMatches(s, m[Len(m)] + 1, pat)

\* String.prototype.match with a global pattern: the matched texts, or null
MatchGlobal(s, pat) ==
    LET ms == AllMatches(s, 1, pat)
    IN  IF ms = <<>> THEN Null ELSE [i \in DOMAIN ms |-> Matched(s, ms[i])]

(***************************************************************************)
(* parseArticles                                                           *)
(***************************************************************************)
NoTitle        == <<"N","o"," ","t","i","t","l","e"," ","a","v","a","i","l","a","b","l","e">>
NoAbstract     == <<"N","o"," ","a","b","s","t","r","a","c","t"," ","a","v","a","i","l","a","b","l","e">>
UnknownAuthors == <<"U","n","k","n","o","w","n"," ","a","u","t","h","o","r","s">>
UnknownJournal == <<"U","n","k","n","o","w","n"," ","j","o","u","r","n","a","l">>
UnknownDate    == <<"U","n","k","n","o","w","n"," ","d","a","t","e">>

\* the 500 of abstract.slice(0, 500)
AbstractLimit == 500

\* String.prototype.slice(0, n)
Slice(s, n) == SubSeq(s, 1, IF Len(s) < n THEN Len(s) ELSE n)

\* the result of match without the default for null
ArticleBlocksOrNull(text) == MatchGlobal(text, articlePattern)

\* articleBlocks: xmlText.match(articlePattern) || []
ArticleBlocks(text) ==
    LET matches == MatchGlobal(text, articlePattern)
    IN  IF matches = Null THEN <<>> ELSE matches

\* pmidMatch ? pmidMatch[1] : null
PmidOf(articleXml) ==
    LET m == Exec(articleXml, 1, pmidPattern)
    IN  IF m = NoMatch THEN Null ELSE Group(articleXml, m, 2)

\* the authors array after the matchAll loop
AuthorsOf(articleXml) ==
    LET ms == AllMatches(articleXml, 1, authorPattern)
    IN  [i \in DOMAIN ms |->
            Group(articleXml, ms[i], 5) \o <<" ">> \o Group(articleXml, ms[i], 3)]

\* the abstract pushed whole
AbstractUntruncated(abstract) == abstract

\* abstract.slice(0, 500)
AbstractHead(abstract) == Slice(abstract, AbstractLimit)

\* the object pushed for a block that has a PMID
RecordOf(articleXml) ==
    LET titleMatch    == Exec(articleXml, 1, titlePattern)
        abstractMatch == Exec(articleXml, 1, abstractPattern)
        journalMatch  == Exec(articleXml, 1, journalPattern)
        yearMatch     == Exec(articleXml, 1, yearPattern)
        monthMatch    == Exec(articleXml, 1, monthPattern)
        doiMatch      == Exec(articleXml, 1, doiPattern)
        authors       == AuthorsOf(articleXml)
        abstract      == IF abstractMatch = NoMatch THEN NoAbstract
                         ELSE StripTags(Group(articleXml, abstractMatch, 2))
    IN  [pmid     |-> PmidOf(articleXml),
         title    |-> IF titleMatch = NoMatch THEN NoTitle
                      ELSE StripTags(Group(articleXml, titleMatch, 2)),
         authors  |-> IF Len(authors) > 0 THEN authors ELSE <<UnknownAuthors>>,
         journal  |-> IF journalMatch = NoMatch THEN UnknownJournal
                      ELSE Group(articleXml, journalMatch, 2),
         pubDate  |-> IF yearMatch = NoMatch THEN UnknownDate
                      ELSE (IF monthMatch = NoMatch THEN <<>>
                            ELSE Group(articleXml, monthMatch, 3) \o <<" ">>)
                           \o Group(articleXml, yearMatch, 3),
         abstract |-> AbstractHead(abstract),
         doi      |-> IF doiMatch = NoMatch THEN Null
                      ELSE Group(articleXml, doiMatch, 2),
         year     |-> IF yearMatch = NoMatch THEN Null
                      ELSE Group(articleXml, yearMatch, 3)]

\* a test that only skips a block with no PMID element at all
HasPmidElement(articleXml) == PmidOf(articleXml) # Null

\* if (!pmid)
HasPmid(articleXml) == Truthy(PmidOf(articleXml))

\* one iteration of the for-of loop when nothing throws
ParseBlock(acc, articleXml) ==
    IF HasPmid(articleXml) THEN Append(acc, RecordOf(articleXml)) ELSE acc

RECURSIVE ParseBlocks(_, _, _)
ParseBlocks(acc, blocks, i) ==
    IF i > Len(blocks) THEN acc
    ELSE ParseBlocks(ParseBlock(acc, blocks[i]), blocks, i + 1)

parseArticles(text) == ParseBlocks(<<>>, ArticleBlocks(text), 1)

(***************************************************************************)
(* Inputs                                                                  *)
(***************************************************************************)
\* longest generated argument list of deduplicateArticles
MaxArticles == 3

\* longest generated argument string of levenshteinDistance
MaxStrLen == 4

Smith == <<"J"," ","S","m","i","t","h">>
Jones == <<"A"," ","J","o","n","e","s">>
Y2020 == <<"2","0","2","0">>

\* "Trial A" and "trial  a." have the normalized title "trial a"; "Trial B"
\* is one edit from it (similarity 6/7), "Trial B2" one edit from "Trial B"
\* (7/8) and two from "Trial A" (6/8).
TitleA  == <<"T","r","i","a","l"," ","A">>
TitleAp == <<"t","r","i","a","l"," "," ","a",".">>
TitleB  == <<"T","r","i","a","l"," ","B">>
TitleB2 == <<"T","r","i","a","l"," ","B","2">>

\* twenty characters; TitleM is three edits from TitleL (similarity exactly
\* 17/20 = 0.85) and TitleN two edits from TitleL and one from TitleM.
TitleL == <<"a","b","c","d","e","f","g","h","i","j","k","l","m","n","o","p","q","r","s","t">>
TitleM == <<"a","b","c","d","e","f","g","h","i","j","k","l","m","n","o","p","q","x","y","z">>
TitleN == <<"a","b","c","d","e","f","g","h","i","j","k","l","m","n","o","p","q","r","y","z">>

\* "10.1/X" and "10.1/x" normalize to "101x"
DoiX  == <<"1","0",".","1","/","X">>
DoiXl == <<"1","0",".","1","/","x">>
DoiY  == <<"1","0",".","2","/","y">>
DoiZ  == <<"1","0",".","3","/","z">>
DoiBlank == <<" ">>
DoiDot   == <<".">>

\* a pmid that reads like the composite key of TitleA, Smith, 2020
PipePmid == <<"t","r","i","a","l"," ","a","|","j"," ","s","m","i","t","h","|","2","0","2","0">>

Article(pmid, doi, title, authors, year) ==
    [pmid |-> pmid, doi |-> doi, title |-> title, authors |-> authors, year |-> year]

ArticlePool ==
    { Article(<<"1">>,  DoiX,     TitleA,  <<Smith>>, Y2020),
      Article(<<"2">>,  DoiXl,    TitleB2, <<Jones>>, Null),
      Article(<<"1">>,  DoiY,     TitleA,  <<Smith>>, Y2020),
      Article(PipePmid, DoiZ,     TitleB2, <<Jones>>, Y2020),
      Article(<<"9">>,  DoiDot,   TitleB,  <<Jones>>, Y2020),
      Article(<<"3">>,  Null,     TitleA,  <<Smith>>, Y2020),
      Article(<<"4">>,  Empty,    TitleAp, <<Smith, Jones>>, Y2020),
      Article(<<"5">>,  Null,     TitleB,  <<Smith>>, Y2020),
      Article(<<"6">>,  DoiBlank, TitleB2, <<Smith>>, Y2020),
      Article(<<"7">>,  Null,     TitleB,  <<Jones>>, Y2020),
      Article(<<"8">>,  DoiBlank, TitleB,  <<Smith>>, Null) }

\* records with twenty-character titles, around the threshold
LongTitlePool ==
    { Article(<<"3">>, Null,     TitleL, <<Smith>>, Y2020),
      Article(<<"4">>, Empty,    TitleM, <<Smith>>, Y2020),
      Article(<<"5">>, Null,     TitleN, <<Smith>>, Y2020) }

\* longest generated list of records with long titles
MaxLongArticles == 2

ListsUpTo(S, n) == UNION {[1..k -> S] : k \in 0..n}

\* the end-to-end example: the records carry no pmid, and the DOI-bearing
\* ones no authors and no year
ExampleArticles ==
    << Article(Null, DoiX,  <<"S","t","u","d","y"," ","A">>, <<>>, Null),
       Article(Null, DoiXl, <<"S","t","u","d","y"," ","A"," ","(","d","u","p",")">>, <<>>, Null),
       Article(Null, Null,  <<"A"," ","L","a","r","g","e"," ","T","r","i","a","l">>,
               << <<"S","m","i","t","h">> >>, Y2020),
       Article(Null, Null,  <<"A"," ","L","a","r","g","e"," ","T","r","i","a","l",".">>,
               << <<"S","m","i","t","h">> >>, Y2020) >>

ArticleLists ==
    ListsUpTo(ArticlePool, MaxArticles)
        \cup ListsUpTo(LongTitlePool, MaxLongArticles)
        \cup {ExampleArticles}

Kitten  == <<"k","i","t","t","e","n">>
Sitting == <<"s","i","t","t","i","n","g">>

LevStrings == ListsUpTo({"a", "b"}, MaxStrLen) \cup {Kitten, Sitting}

(***************************************************************************)
(* Inputs of parseArticles: efetch markup                                  *)
(***************************************************************************)
\* most article blocks of one markup text
MaxBlocks == 3

\* most blocks of one call whose extraction throws
MaxThrows == 1

\* length of the longest abstract text, in characters
MaxAbstractLen == 502

\* an element with its content on one line, or nothing when content is null
Element(open, content, close) ==
    IF content = Null THEN <<>> ELSE <<open>> \o content \o <<close, "\n">>

RECURSIVE Concat(_)
Concat(ss) == IF ss = <<>> THEN <<>> ELSE Head(ss) \o Concat(Tail(ss))

AuthorElement(a) ==
    <<"<Author ValidYN=\"Y\">">>
        \o Element("<LastName>", a.last, "</LastName>")
        \o Element("<ForeName>", a.fore, "</ForeName>")
        \o <<"</Author>", "\n">>

\* One <PubmedArticle> block in the layout efetch produces, from the
\* description b of the article.  A null field has no element.
RenderBlock(b) ==
    <<"<PubmedArticle>", "\n">>
        \o Element("<PMID Version=\"1\">", b.pmid, "</PMID>")
        \o <<"<Journal>", "\n">>
        \o Element("<Title>", b.journal, "</Title>")
        \o <<"<PubDate>", "\n">>
        \o Element("<Year>", b.year, "</Year>")
        \o Element("<Month>", b.month, "</Month>")
        \o <<"</PubDate>", "\n", "</Journal>", "\n">>
        \o Element("<ArticleTitle>", b.title, "</ArticleTitle>")
        \o (IF b.abstract = Null THEN <<>>
            ELSE <<"<Abstract>", "\n">>
                    \o Element("<AbstractText>", b.abstract, "</AbstractText>")
                    \o <<"</Abstract>", "\n">>)
        \o (IF b.authors = <<>> THEN <<>>
            ELSE <<"<AuthorList>", "\n">>
                    \o Concat([i \in DOMAIN b.authors |-> AuthorElement(b.authors[i])])
                    \o <<"</AuthorList>", "\n">>)
        \o <<"<ArticleIdList>", "\n">>
        \o Element("<ArticleId IdType=\"pubmed\">", b.pmid, "</ArticleId>")
        \o Element("<ArticleId IdType=\"doi\">", b.doi, "</ArticleId>")
        \o <<"</ArticleIdList>", "\n", "</PubmedArticle>", "\n">>

\* the efetch answer for a list of articles
Markup(blocks) ==
    <<"<PubmedArticleSet>", "\n">>
        \o Concat([i \in DOMAIN blocks |-> RenderBlock(blocks[i])])
        \o <<"</PubmedArticleSet>">>

Block(pmid, title, abstract, authors, year, month, doi) ==
    [pmid |-> pmid, title |-> title, abstract |-> abstract, authors |-> authors,
     journal |-> <<"B","M","J">>, year |-> year, month |-> month, doi |-> doi]

JSmith == [last |-> <<"S","m","i","t","h">>, fore |-> <<"J">>]
AJones == [last |-> <<"J","o","n","e","s">>, fore |-> <<"A">>]
Jan    == <<"J","a","n">>

\* a title and an abstract with inline markup
TitleAMarked == <<"T","r","<i>","i","a","l","</i>"," ","A">>
ShortAbstract == <<"<i>","W","e","</i>"," ","f","o","u","n","d","\n","i","t",".">>

\* n characters of text with an inline tag after the first one
LongText(n) == <<"x", "<i>">> \o [i \in 1..(n - 1) |-> "y"]

NoAbstractBlock == Block(<<"2">>, TitleB, Null, <<>>, Y2020, Null, Null)

BlockPool ==
    { Block(<<"1">>, TitleAMarked, ShortAbstract, <<JSmith, AJones>>, Y2020, Jan, DoiX),
      NoAbstractBlock,
      \* no PMID element, and an empty one
      Block(Null, TitleB, ShortAbstract, <<AJones>>, Y2020, Null, DoiY),
      Block(Empty, TitleA, Null, <<JSmith>>, Null, Null, Null),
      \* the PMID of the first block again
      Block(<<"1">>, TitleB2, Null, <<AJones>>, Y2020, Null, Null) }

\* abstracts of exactly the limit and longer than it
LongAbstractPool ==
    { Block(<<"3">>, Null, LongText(AbstractLimit), <<JSmith>>, Null, Null, Null),
      Block(<<"4","5">>, TitleB, LongText(MaxAbstractLen), <<JSmith>>, Y2020, Jan, DoiZ),
      NoAbstractBlock }

\* most blocks of a markup text with long abstracts
MaxLongBlocks == 2

\* an author without given name, before and after an author with both names
SurnameOnly(last) == [last |-> last, fore |-> Null]

SurnameOnlyPool ==
    { Block(<<"5">>, TitleA, Null, <<SurnameOnly(JSmith.last), AJones>>, Y2020, Null, Null),
      Block(<<"6">>, TitleA, Null, <<JSmith, SurnameOnly(AJones.last)>>, Y2020, Null, Null),
      Block(<<"7">>, TitleA, Null, <<SurnameOnly(JSmith.last)>>, Y2020, Null, Null) }

BlockLists ==
    UNION { ListsUpTo(BlockPool, MaxBlocks),
            ListsUpTo(LongAbstractPool, MaxLongBlocks),
            {<<b>> : b \in SurnameOnlyPool} }

\* texts that are not a list of complete blocks
RawMarkups ==
    { <<>>,
      <<"<ERROR>", "N","o"," ","i","d", "</ERROR>">>,
      \* an opening delimiter that is never closed
      <<"<PubmedArticle>", "<PMID>", "9", "</PMID>", "\n">>,
      \* a closing delimiter alone
      <<"<PMID>", "9", "</PMID>", "</PubmedArticle>">>,
      \* an unclosed block followed by a complete one
      <<"<PubmedArticle>", "<PMID>", "8", "</PMID>", "\n",
        "<PubmedArticle>", "<PMID>", "9", "</PMID>", "</PubmedArticle>">>,
      \* a PMID broken over two lines
      <<"<pubmedarticle>", "<pmid>", "\n", "7", "</pmid>", "</pubmedarticle>">> }

\* no Response yet
NoResponse == [status |-> 0, body |-> Null]

HandlerIdle ==
    /\ fn = "none" /\ method = "none" /\ upstream = Null /\ hpc = "idle"
    /\ pmids = <<>> /\ efetchText = <<>> /\ extracted = <<>>
    /\ response = NoResponse /\ calls = {} /\ pageArticles = <<>>
    /\ loading = FALSE

IdleExceptDedup   == LevIdle /\ ParseIdle /\ HandlerIdle /\ NormIdle /\ FramesIdle
                        /\ CanvasIdle /\ PathIdle
IdleExceptLev     == DedupIdle /\ ParseIdle /\ HandlerIdle /\ NormIdle /\ FramesIdle
                        /\ CanvasIdle /\ PathIdle
IdleExceptParse   == DedupIdle /\ LevIdle /\ HandlerIdle /\ NormIdle /\ FramesIdle
                        /\ CanvasIdle /\ PathIdle
IdleExceptHandler == DedupIdle /\ LevIdle /\ ParseIdle /\ NormIdle /\ FramesIdle
                        /\ CanvasIdle /\ PathIdle
IdleExceptNorm    == DedupIdle /\ LevIdle /\ ParseIdle /\ HandlerIdle /\ FramesIdle
                        /\ CanvasIdle /\ PathIdle

(***************************************************************************)
(* One call of deduplicateArticles, an iteration of the loop per step,     *)
(* followed by a second call on the returned list.                         *)
(***************************************************************************)
Init ==
    /\ articles \in ArticleLists
    /\ idx = 0
    /\ uniqueMap = <<>>
    /\ doiMap = <<>>
    /\ accepted = <<>>
    /\ pc = "loop"
    /\ result = <<>>
    /\ again = <<>>
    /\ IdleExceptDedup

Current == articles[idx + 1]

Maps == [uniqueMap |-> uniqueMap, doiMap |-> doiMap]

\* the loop body on the next article; `accept' tells whether it is stored
Iterate(accept) ==
    /\ uniqueMap' = LoopBody(Maps, Current).uniqueMap
    /\ doiMap' = LoopBody(Maps, Current).doiMap
    /\ accepted' = IF accept THEN Append(accepted, Current) ELSE accepted
    /\ idx' = idx + 1
    /\ UNCHANGED <<articles, pc, result, again>>
    /\ UNCHANGED exceptDedup

InLoop == pc = "loop" /\ idx < Len(articles)

\* line 151
SkipDuplicateDoi ==
    /\ InLoop
    /\ HasDoi(Current)
    /\ MapHas(doiMap, DoiKey(Current))
    /\ Iterate(FALSE)

\* lines 153-155
AcceptDoi ==
    /\ InLoop
    /\ HasDoi(Current)
    /\ ~MapHas(doiMap, DoiKey(Current))
    /\ Iterate(TRUE)

\* line 170
SkipExactKey ==
    /\ InLoop
    /\ ~HasDoi(Current)
    /\ MapHas(uniqueMap, CompositeKey(Current))
    /\ Iterate(FALSE)

\* lines 183-184
SkipFuzzyDuplicate ==
    /\ InLoop
    /\ ~HasDoi(Current)
    /\ ~MapHas(uniqueMap, CompositeKey(Current))
    /\ IsDuplicate(uniqueMap, Current)
    /\ Iterate(FALSE)

\* line 191
AcceptTier2 ==
    /\ InLoop
    /\ ~HasDoi(Current)
    /\ ~MapHas(uniqueMap, CompositeKey(Current))
    /\ ~IsDuplicate(uniqueMap, Current)
    /\ Iterate(TRUE)

\* line 195
Return ==
    /\ pc = "loop"
    /\ idx = Len(articles)
    /\ result' = MapValues(uniqueMap)
    /\ pc' = "returned"
    /\ UNCHANGED <<articles, idx, uniqueMap, doiMap, accepted, again>>
    /\ UNCHANGED exceptDedup

\* deduplicateArticles applied to what it returned
Reapply ==
    /\ pc = "returned"
    /\ again' = deduplicateArticles(result)
    /\ pc' = "reapplied"
    /\ UNCHANGED <<articles, idx, uniqueMap, doiMap, accepted, result>>
    /\ UNCHANGED exceptDedup

Next ==
    \/ SkipDuplicateDoi
    \/ AcceptDoi
    \/ SkipExactKey
    \/ SkipFuzzyDuplicate
    \/ AcceptTier2
    \/ Return
    \/ Reapply

Spec == Init /\ [][Next]_vars

(***************************************************************************)
(* levenshteinDistance applied to a pair of strings, in both orders        *)
(***************************************************************************)
InitLev ==
    /\ str1 \in LevStrings
    /\ str2 \in LevStrings
    /\ distance = [fwd |-> 0, rev |-> 0]
    /\ similarity = [num |-> 0, den |-> 1]
    /\ lpc = "input"
    /\ IdleExceptLev

ComputeDistance ==
    /\ lpc = "input"
    /\ distance' = [fwd |-> levenshteinDistance(str1, str2),
                    rev |-> levenshteinDistance(str2, str1)]
    /\ lpc' = "computed"
    /\ UNCHANGED <<str1, str2, similarity>>
    /\ UNCHANGED exceptLev

\* calculateSimilarity on the same pair
ComputeSimilarity ==
    /\ lpc = "computed"
    /\ similarity' = calculateSimilarity(str1, str2)
    /\ lpc' = "scored"
    /\ UNCHANGED <<str1, str2, distance>>
    /\ UNCHANGED exceptLev

NextLev ==
    \/ ComputeDistance
    \/ ComputeSimilarity

SpecLev == InitLev /\ [][NextLev]_vars

(***************************************************************************)
(* normalizeString applied to a string                                     *)
(***************************************************************************)
\* longest string normalizeString is applied to
MaxNormLen == 3

\* a letter of each case, a digit, two kinds of whitespace, the underscore
\* and a punctuation mark
NormChars == {"A", "b", "7", " ", "\t", "_", "-"}

NormStrings == ListsUpTo(NormChars, MaxNormLen)

InitNorm ==
    /\ raw \in NormStrings
    /\ normalized = <<>>
    /\ npc = "input"
    /\ IdleExceptNorm

Normalize ==
    /\ npc = "input"
    /\ normalized' = normalizeString(raw)
    /\ npc' = "normalized"
    /\ UNCHANGED raw
    /\ UNCHANGED exceptNorm

NextNorm == Normalize

SpecNorm == InitNorm /\ [][NextNorm]_vars

(***************************************************************************)
(* Two deduplicateArticles calls, made by two requests, whose steps are    *)
(* taken in any order                                                      *)
(***************************************************************************)
\* most articles of the argument of one of the two calls
MaxCallArticles == 2

Calls == {1, 2}

CallPool ==
    { Article(<<"3">>, Null,  TitleA,  <<Smith>>, Y2020),
      Article(<<"4">>, Empty, TitleAp, <<Smith, Jones>>, Y2020),
      Article(<<"1">>, DoiX,  TitleB,  <<Jones>>, Y2020) }

CallLists == ListsUpTo(CallPool, MaxCallArticles)

\* lines 143-144: each call makes its own two maps
NewFrame(xs) ==
    [articles |-> xs, idx |-> 0, uniqueMap |-> <<>>, doiMap |-> <<>>,
     pc |-> "loop", result |-> <<>>]

InitCalls ==
    /\ frames \in [Calls -> {NewFrame(xs) : xs \in CallLists}]
    /\ DedupIdle /\ LevIdle /\ ParseIdle /\ HandlerIdle /\ NormIdle
    /\ CanvasIdle /\ PathIdle

\* maps that belong to the module and not to the call: every call reads
\* those of the first one
SharedMaps(c) ==
    [uniqueMap |-> frames[1].uniqueMap, doiMap |-> frames[1].doiMap]

\* the maps a call reads and writes: its own
OwnMaps(c) ==
    [uniqueMap |-> frames[c].uniqueMap, doiMap |-> frames[c].doiMap]

\* lines 146-193 in call c: one iteration of its loop
CallStep(c) ==
    /\ frames[c].pc = "loop"
    /\ frames[c].idx < Len(frames[c].articles)
    /\ LET st == LoopBody(OwnMaps(c), frames[c].articles[frames[c].idx + 1])
       IN  frames' = [frames EXCEPT ![c].uniqueMap = st.uniqueMap,
                                    ![c].doiMap = st.doiMap,
                                    ![c].idx = @ + 1]
    /\ UNCHANGED <<dedupVars, levVars, parseVars, handlerVars, normVars,
                   canvasVars, pathVars>>

\* line 195 in call c
CallReturn(c) ==
    /\ frames[c].pc = "loop"
    /\ frames[c].idx = Len(frames[c].articles)
    /\ frames' = [frames EXCEPT ![c].result = MapValues(frames[c].uniqueMap),
                                ![c].pc = "returned"]
    /\ UNCHANGED <<dedupVars, levVars, parseVars, handlerVars, normVars,
                   canvasVars, pathVars>>

NextCalls ==
    \/ \E c \in Calls : CallStep(c)
    \/ \E c \in Calls : CallReturn(c)

SpecCalls == InitCalls /\ [][NextCalls]_vars

(***************************************************************************)
(* One call of parseArticles, a block of the for-of loop per step          *)
(***************************************************************************)
InitParse ==
    /\ \/ /\ blocksIn \in BlockLists
          /\ xmlText = Markup(blocksIn)
       \/ /\ blocksIn = <<>>
          /\ xmlText \in RawMarkups
    /\ articleBlocks = <<>>
    /\ bidx = 0
    /\ parsed = <<>>
    /\ thrown = {}
    /\ ppc = "start"
    /\ IdleExceptParse

\* line 69
MatchBlocks ==
    /\ ppc = "start"
    /\ articleBlocks' = ArticleBlocks(xmlText)
    /\ ppc' = "loop"
    /\ UNCHANGED <<xmlText, blocksIn, bidx, parsed, thrown>>
    /\ UNCHANGED exceptParse

InBlockLoop == ppc = "loop" /\ bidx < Len(articleBlocks)

CurrentBlock == articleBlocks[bidx + 1]

\* lines 80-83
SkipNoPmid ==
    /\ InBlockLoop
    /\ ~HasPmid(CurrentBlock)
    /\ bidx' = bidx + 1
    /\ UNCHANGED <<xmlText, blocksIn, articleBlocks, parsed, thrown, ppc>>
    /\ UNCHANGED exceptParse

\* lines 85-125
PushRecord ==
    /\ InBlockLoop
    /\ HasPmid(CurrentBlock)
    /\ parsed' = Append(parsed, RecordOf(CurrentBlock))
    /\ bidx' = bidx + 1
    /\ UNCHANGED <<xmlText, blocksIn, articleBlocks, thrown, ppc>>
    /\ UNCHANGED exceptParse

\* a catch clause that gives up on the remaining blocks
CatchErrorAndStop ==
    /\ InBlockLoop
    /\ Cardinality(thrown) < MaxThrows
    /\ thrown' = thrown \cup {bidx + 1}
    /\ bidx' = Len(articleBlocks)
    /\ UNCHANGED <<xmlText, blocksIn, articleBlocks, parsed, ppc>>
    /\ UNCHANGED exceptParse

\* lines 126-128: a call of lines 77-114 throws.  The push of line 116 is
\* the last statement of the try block, so nothing was pushed for the block.
CatchError ==
    /\ InBlockLoop
    /\ Cardinality(thrown) < MaxThrows
    /\ thrown' = thrown \cup {bidx + 1}
    /\ bidx' = bidx + 1
    /\ UNCHANGED <<xmlText, blocksIn, articleBlocks, parsed, ppc>>
    /\ UNCHANGED exceptParse

\* line 131
ReturnArticles ==
    /\ ppc = "loop"
    /\ bidx = Len(articleBlocks)
    /\ ppc' = "returned"
    /\ UNCHANGED <<xmlText, blocksIn, articleBlocks, bidx, parsed, thrown>>
    /\ UNCHANGED exceptParse

NextParse ==
    \/ MatchBlocks
    \/ SkipNoPmid
    \/ PushRecord
    \/ CatchError
    \/ ReturnArticles

SpecParse == InitParse /\ [][NextParse]_vars

(***************************************************************************)
(* The request handlers of search-pubmed and get-related-articles, and     *)
(* handleSearch of the search page                                         *)
(***************************************************************************)
\* the 10 of links?.slice(0, 10)
RelatedLimit == 10

\* most identifiers the identifier step answers with
MaxIds == 11

\* n identifiers; the handlers only count them and pass them on
IdList(n) == [i \in 1..n |-> "1"]

\* Answers of the identifier step (esearch or elink).  ids is the value at
\* esearchresult.idlist, or linksets[0].linksetdbs[0].links, of the JSON
\* body: null when the body has no such path.
SearchOutcomes ==
    { [kind |-> "network_error", ids |-> Null],
      [kind |-> "malformed_json", ids |-> Null],
      \* an error status with a JSON body, as {"error": "API rate limit exceeded"}
      [kind |-> "http_error", ids |-> Null],
      [kind |-> "ok", ids |-> Null],
      [kind |-> "ok", ids |-> <<>>],
      [kind |-> "ok", ids |-> IdList(1)],
      [kind |-> "ok", ids |-> IdList(2)],
      [kind |-> "ok", ids |-> IdList(MaxIds)] }

\* answers of the record fetch (efetch): the body text
DetailsOutcomes ==
    { [kind |-> "network_error", text |-> Null],
      [kind |-> "http_error", text |-> <<"<ERROR>", "d", "o", "w", "n", "</ERROR>">>],
      [kind |-> "ok", text |-> Markup(<<>>)],
      [kind |-> "ok", text |-> Markup(<<NoAbstractBlock>>)],
      [kind |-> "ok", text |->
          Markup(<<Block(<<"1">>, TitleA, Null, <<JSmith>>, Y2020, Null, DoiX),
                   Block(<<"2">>, TitleB, Null, <<JSmith>>, Y2020, Null, DoiXl)>>)] }

Upstreams ==
    [request : {"ok", "malformed_json"}, search : SearchOutcomes,
     details : DetailsOutcomes, client : {"ok", "network_error"}]

\* the body and status of a Response
Success(list) ==
    [status |-> 200, body |-> [articles |-> list, error |-> Null]]

\* lines 51-60: error.message, and no articles
Failure(message) ==
    [status |-> 500, body |-> [articles |-> <<>>, error |-> <<message>>]]

InitHandler ==
    /\ fn \in {"search-pubmed", "get-related-articles"}
    /\ method \in {"OPTIONS", "POST"}
    /\ upstream \in Upstreams
    /\ hpc = "start"
    /\ pmids = <<>>
    /\ efetchText = <<>>
    /\ extracted = <<>>
    /\ response = NoResponse
    /\ calls = {}
    /\ pageArticles = <<>>
    /\ loading = FALSE
    /\ IdleExceptHandler

\* what a step of a handler leaves as it is
Frame(changed) ==
    /\ UNCHANGED <<fn, method, upstream>>
    /\ UNCHANGED exceptHandler
    /\ IF "pmids" \in changed THEN TRUE ELSE UNCHANGED pmids
    /\ IF "efetchText" \in changed THEN TRUE ELSE UNCHANGED efetchText
    /\ IF "extracted" \in changed THEN TRUE ELSE UNCHANGED extracted
    /\ IF "calls" \in changed THEN TRUE ELSE UNCHANGED calls
    /\ IF "response" \in changed THEN TRUE ELSE UNCHANGED response
    /\ IF "page" \in changed THEN TRUE ELSE UNCHANGED <<pageArticles, loading>>

\* part_006 line 24: the page starts a search
HandleSearch ==
    /\ hpc = "start"
    /\ fn = "search-pubmed"
    /\ method = "POST"
    /\ ~loading
    /\ loading' = TRUE
    /\ pageArticles' = pageArticles
    /\ hpc' = "start"
    /\ Frame({"page"})

Requested == fn = "search-pubmed" /\ method = "POST" => loading

\* lines 9-11
Preflight ==
    /\ hpc = "start"
    /\ method = "OPTIONS"
    /\ response' = [status |-> 200, body |-> Null]
    /\ hpc' = "responded"
    /\ Frame({"response"})

\* line 14, and lines 51-60 when the body of the request is not JSON
ReadRequest ==
    /\ hpc = "start"
    /\ method = "POST"
    /\ Requested
    /\ IF upstream.request = "ok"
       THEN hpc' = "request" /\ Frame({})
       ELSE /\ response' = Failure("Unexpected token")
            /\ hpc' = "responded"
            /\ Frame({"response"})

\* pmids: esearchresult?.idlist || [], or links?.slice(0, 10) || []
Identifiers(ids) ==
    IF ids = Null THEN <<>>
    ELSE IF fn = "get-related-articles" THEN Slice(ids, RelatedLimit)
    ELSE ids

\* lines 18-24 (part_000 lines 18-25): the identifier step
SearchIdentifiers ==
    /\ hpc = "request"
    /\ calls' = calls \cup {"identifierSearch"}
    /\ CASE upstream.search.kind = "network_error" ->
                /\ response' = Failure("fetch failed")
                /\ hpc' = "responded"
                /\ Frame({"calls", "response"})
         [] upstream.search.kind = "malformed_json" ->
                /\ response' = Failure("Unexpected token")
                /\ hpc' = "responded"
                /\ Frame({"calls", "response"})
         [] OTHER ->
                /\ pmids' = Identifiers(upstream.search.ids)
                /\ hpc' = "identifiers"
                /\ Frame({"calls", "pmids"})

\* an identifier step whose empty answer does not end the request
ReturnEmptyAfterFetch ==
    /\ hpc = "identifiers"
    /\ pmids = <<>>
    /\ calls' = calls \cup {"recordFetch"}
    /\ response' = Success(<<>>)
    /\ hpc' = "responded"
    /\ Frame({"calls", "response"})

\* lines 26-31 (part_000 lines 27-32)
ReturnEmpty ==
    /\ hpc = "identifiers"
    /\ pmids = <<>>
    /\ response' = Success(<<>>)
    /\ hpc' = "responded"
    /\ Frame({"response"})

\* lines 34-37 (part_000 lines 35-38): the status of the answer is not read
FetchDetails ==
    /\ hpc = "identifiers"
    /\ pmids # <<>>
    /\ calls' = calls \cup {"recordFetch"}
    /\ IF upstream.details.kind = "network_error"
       THEN /\ response' = Failure("fetch failed")
            /\ hpc' = "responded"
            /\ Frame({"calls", "response"})
       ELSE /\ efetchText' = upstream.details.text
            /\ hpc' = "fetched"
            /\ Frame({"calls", "efetchText"})

\* line 40 (part_000 line 41)
ParseDetails ==
    /\ hpc = "fetched"
    /\ calls' = calls \cup {"parseArticles"}
    /\ extracted' = parseArticles(efetchText)
    /\ hpc' = "parsed"
    /\ Frame({"calls", "extracted"})

\* line 44, search-pubmed only
Deduplicate ==
    /\ hpc = "parsed"
    /\ fn = "search-pubmed"
    /\ calls' = calls \cup {"deduplicateArticles"}
    /\ extracted' = deduplicateArticles(extracted)
    /\ hpc' = "deduplicated"
    /\ Frame({"calls", "extracted"})

\* lines 47-50 (part_000 lines 44-47)
Respond ==
    /\ \/ hpc = "deduplicated"
       \/ hpc = "parsed" /\ fn = "get-related-articles"
    /\ response' = Success(extracted)
    /\ hpc' = "responded"
    /\ Frame({"response"})

\* part_006 lines 36-42: neither the status nor data.error is read; when
\* the fetch of the page itself fails the articles are left as they were
ReceiveResponse ==
    /\ hpc = "responded"
    /\ loading
    /\ pageArticles' = IF upstream.client = "ok" THEN response.body.articles
                       ELSE pageArticles
    /\ loading' = FALSE
    /\ hpc' = "shown"
    /\ Frame({"page"})

NextHandler ==
    \/ HandleSearch
    \/ Preflight
    \/ ReadRequest
    \/ SearchIdentifiers
    \/ ReturnEmpty
    \/ FetchDetails
    \/ ParseDetails
    \/ Deduplicate
    \/ Respond
    \/ ReceiveResponse

SpecHandler == InitHandler /\ [][NextHandler]_vars

\* the step machine and the operator compute the same list
ReturnIsDeduplicate == pc = "returned" => result = deduplicateArticles(articles)

(***************************************************************************)
(* Vocabulary of the properties                                            *)
(***************************************************************************)
InSeq(x, s) == \E i \in DOMAIN s : s[i] = x

Count(x, s) == Cardinality({i \in DOMAIN s : s[i] = x})

\* the identifier fields of a record
IdFields(r) == <<r.pmid, r.doi>>

IdsOf(s) == [i \in DOMAIN s |-> IdFields(s[i])]

\* equal as multisets
SameBag(s, t) ==
    /\ Len(s) = Len(t)
    /\ \A x \in Range(s) \cup Range(t) : Count(x, s) = Count(x, t)

\* the doi field is a string of at least one character
NonEmptyDoi(r) == r.doi # Null /\ r.doi # Empty

\* the doi field is a string with at least one non-whitespace character
NonBlankDoi(r) == r.doi # Null /\ \E i \in DOMAIN r.doi : r.doi[i] \notin SpaceChars

SameNormalizedDoi(r, q) == normalizeString(r.doi) = normalizeString(q.doi)

SameAuthorAndYear(r, q) ==
    FirstAuthor(r) = FirstAuthor(q) /\ YearOf(r) = YearOf(q)

MaxOf(a, b) == IF a >= b THEN a ELSE b

\* similarity of the normalized titles > 0.85, as 100*(maxLen - d) > 85*maxLen
TitlesSimilar(r, q) ==
    LET t == normalizeString(r.title)
        u == normalizeString(q.title)
        maxLen == MaxOf(Len(t), Len(u))
    IN  100 * (maxLen - levenshteinDistance(t, u)) > 85 * maxLen

\* similarity of the normalized titles is exactly 0.85
TitlesAtThreshold(r, q) ==
    LET t == normalizeString(r.title)
        u == normalizeString(q.title)
        maxLen == MaxOf(Len(t), Len(u))
    IN  100 * (maxLen - levenshteinDistance(t, u)) = 85 * maxLen

Returned == pc = "returned"

(***************************************************************************)
(* C1                                                                      *)
(***************************************************************************)
\* C1: deduplicateArticles is idempotent: applied to its own result it
\* returns the same records, compared as multisets of (pmid, doi).
C1_Idempotent ==
    pc = "reapplied" => SameBag(IdsOf(again), IdsOf(result))

\* a second application after a first one that dropped a record and kept two
C1_Witness ==
    /\ pc = "reapplied"
    /\ Len(result) >= 2
    /\ Len(result) < Len(articles)
    /\ \E i \in DOMAIN result : ~HasDoi(result[i])

(***************************************************************************)
(* C2                                                                      *)
(***************************************************************************)
\* C2 as stated: the output holds at most one record for every normalized
\* DOI of records whose doi is a non-empty string.
C2_NonEmptyDoiCollapse ==
    Returned =>
        \A i, j \in DOMAIN result :
            ( /\ NonEmptyDoi(result[i]) /\ NonEmptyDoi(result[j])
              /\ SameNormalizedDoi(result[i], result[j]) ) => i = j

\* C2 amended: the output holds at most one record for every normalized DOI
\* of records whose doi has a non-whitespace character, whatever the
\* records' titles, authors, years and pmids are.
C2_NonBlankDoiCollapse ==
    Returned =>
        \A i, j \in DOMAIN result :
            ( /\ NonBlankDoi(result[i]) /\ NonBlankDoi(result[j])
              /\ SameNormalizedDoi(result[i], result[j]) ) => i = j

\* two input records with DOIs that differ as written and agree once
\* normalized, with different titles and pmids, of which one is returned
C2_Witness ==
    /\ Returned
    /\ \E i, j \in DOMAIN articles :
          /\ i < j
          /\ NonBlankDoi(articles[i]) /\ NonBlankDoi(articles[j])
          /\ articles[i].doi # articles[j].doi
          /\ SameNormalizedDoi(articles[i], articles[j])
          /\ articles[i].title # articles[j].title
          /\ articles[i].pmid # articles[j].pmid
          /\ InSeq(articles[i], result)
          /\ ~InSeq(articles[j], result)

(***************************************************************************)
(* C3                                                                      *)
(***************************************************************************)
\* the first record of the input with its normalized DOI
FirstOfItsDoi(i) ==
    /\ NonBlankDoi(articles[i])
    /\ \A k \in 1..(i - 1) :
          ~(NonBlankDoi(articles[k]) /\ SameNormalizedDoi(articles[k], articles[i]))

\* C3: two DOI-bearing records with different DOIs are never duplicates of
\* each other: both are in the output, whatever their pmids are.  (Stated for
\* the records that are the first of their DOI, so that neither is dropped
\* as the Tier-1 duplicate of a third record.)
C3_DifferentDoisBothKept ==
    Returned =>
        \A i, j \in DOMAIN articles :
            ( /\ i < j
              /\ FirstOfItsDoi(i) /\ FirstOfItsDoi(j)
              /\ ~SameNormalizedDoi(articles[i], articles[j]) )
            => InSeq(articles[i], result) /\ InSeq(articles[j], result)

(***************************************************************************)
(* C4                                                                      *)
(***************************************************************************)
\* C4: of two DOI-less records with the same normalized first author and the
\* same year, one is returned when the similarity of their normalized titles
\* is > 0.85 and both are returned when it is <= 0.85.
C4_TwoRecordThreshold ==
    ( /\ Returned
      /\ Len(articles) = 2
      /\ ~NonBlankDoi(articles[1]) /\ ~NonBlankDoi(articles[2])
      /\ SameAuthorAndYear(articles[1], articles[2]) )
    => IF TitlesSimilar(articles[1], articles[2])
       THEN result = <<articles[1]>>
       ELSE result = <<articles[1], articles[2]>>

\* two such records with different normalized titles, merged by similarity
C4_Witness ==
    /\ Returned
    /\ Len(articles) = 2
    /\ ~NonBlankDoi(articles[1]) /\ ~NonBlankDoi(articles[2])
    /\ SameAuthorAndYear(articles[1], articles[2])
    /\ normalizeString(articles[1].title) # normalizeString(articles[2].title)
    /\ TitlesSimilar(articles[1], articles[2])
    /\ Len(result) = 1

\* two such records at a similarity of exactly 0.85, both returned
C4_AtThreshold ==
    /\ Returned
    /\ Len(articles) = 2
    /\ ~NonBlankDoi(articles[1]) /\ ~NonBlankDoi(articles[2])
    /\ SameAuthorAndYear(articles[1], articles[2])
    /\ TitlesAtThreshold(articles[1], articles[2])
    /\ Len(result) = 2

(***************************************************************************)
(* C5                                                                      *)
(***************************************************************************)
\* C5: the earliest-seen record of a duplicate group is the one retained: a
\* record that was accepted is never later replaced by a record that comes
\* after it in the input, so every accepted record is in the output.
C5_AcceptedNeverReplaced ==
    Returned => \A i \in DOMAIN accepted : InSeq(accepted[i], result)

(***************************************************************************)
(* C6                                                                      *)
(***************************************************************************)
\* the position of a record in the output
PositionIn(x, s) == CHOOSE i \in DOMAIN s : s[i] = x

\* C6: the output lists the accepted records in the order in which they were
\* accepted: if a was accepted before b and both are in the output, a
\* precedes b in the output.
C6_AcceptanceOrder ==
    Returned =>
        \A i, j \in DOMAIN accepted :
            ( /\ i < j
              /\ InSeq(accepted[i], result)
              /\ InSeq(accepted[j], result) )
            => PositionIn(accepted[i], result) < PositionIn(accepted[j], result)

(***************************************************************************)
(* C7                                                                      *)
(***************************************************************************)
\* duplicates of each other under the matching rules
DuplicatesUnderRules(r, q) ==
    \/ /\ NonBlankDoi(r) /\ NonBlankDoi(q)
       /\ SameNormalizedDoi(r, q)
    \/ /\ ~NonBlankDoi(r) /\ ~NonBlankDoi(q)
       /\ \/ CompositeKey(r) = CompositeKey(q)
          \/ SameAuthorAndYear(r, q) /\ TitlesSimilar(r, q)

C8_Example ==
    (Returned /\ articles = ExampleArticles)
        => result = <<ExampleArticles[1], ExampleArticles[3]>>

C8_Witness ==
    /\ Returned
    /\ articles = ExampleArticles
    /\ Len(result) = 2

(***************************************************************************)
(* C9, C10                                                                 *)
(***************************************************************************)
Computed == lpc \in {"computed", "scored"}

\* C9: levenshteinDistance is symmetric, zero for equal strings, and zero
\* only for equal strings.
C9_SymmetricZeroIffEqual ==
    Computed =>
        /\ distance.fwd = distance.rev
        /\ (str1 = str2 => distance.fwd = 0)
        /\ (distance.fwd = 0 => str1 = str2)

\* two different strings of different lengths, measured in both orders
C9_Witness ==
    /\ Computed
    /\ Len(str1) > Len(str2)
    /\ Len(str2) > 0
    /\ distance.fwd > Len(str1) - Len(str2)
    /\ distance.rev = distance.fwd

MinOfSet(S) == CHOOSE x \in S : \A y \in S : x <= y

\* the unit-cost edit distance: the least number of single-character
\* insertions, deletions and substitutions that turn a into b
RECURSIVE EditDistance(_, _)
EditDistance(a, b) ==
    IF a = <<>> THEN Len(b)
    ELSE IF b = <<>> THEN Len(a)
    ELSE MinOfSet({ EditDistance(Tail(a), b) + 1,
                    EditDistance(a, Tail(b)) + 1,
                    EditDistance(Tail(a), Tail(b))
                        + (IF Head(a) = Head(b) THEN 0 ELSE 1) })

\* C10: levenshteinDistance(a, b) is the unit-cost edit distance of a and b,
\* empty strings included; it is a non-negative integer no larger than the
\* longer length, and levenshteinDistance("kitten", "sitting") = 3.
C10_IsEditDistance ==
    Computed =>
        /\ distance.fwd = EditDistance(str1, str2)
        /\ distance.fwd \in 0..MaxOf(Len(str1), Len(str2))
        /\ (str1 = Kitten /\ str2 = Sitting => distance.fwd = 3)

C10_Witness ==
    /\ Computed
    /\ str1 = Kitten
    /\ str2 = Sitting
    /\ distance.fwd = 3

(***************************************************************************)
(* C11                                                                     *)
(***************************************************************************)
Scored == lpc = "scored"

\* C11: calculateSimilarity returns exactly 1 for two empty strings and for
\* any two equal strings, and for every other pair the quotient
\* (maxLen - editDistance) / maxLen, maxLen being the longer length.
C11_SimilarityFormula ==
    Scored =>
        LET maxLen == MaxOf(Len(str1), Len(str2))
        IN  /\ similarity.den > 0
            /\ (str1 = str2 => similarity.num = similarity.den)
            /\ (str1 # str2 =>
                    similarity.num * maxLen
                        = (maxLen - EditDistance(str1, str2)) * similarity.den)

\* a pair of different lengths with a similarity strictly between 0 and 1
C11_Witness ==
    /\ Scored
    /\ Len(str1) < Len(str2)
    /\ Len(str1) > 0
    /\ similarity.num > 0
    /\ similarity.num < similarity.den

(***************************************************************************)
(* C12 - C14, C18, C19: parseArticles                                      *)
(***************************************************************************)
ParseReturned == ppc = "returned"

\* the markup is the rendering of a list of complete article blocks
WellFormed == xmlText = Markup(blocksIn)

PmidsOf(records) == [i \in DOMAIN records |-> records[i].pmid]

\* the elements of s whose position is not in drop, in order
Without(s, drop) ==
    LET F[i \in 0..Len(s)] ==
            IF i = 0 THEN <<>>
            ELSE IF i \in drop THEN F[i - 1] ELSE Append(F[i - 1], s[i])
    IN  F[Len(s)]

\* C12: for markup made of well-formed article blocks, parseArticles returns
\* exactly one record for each block with a non-empty PMID, in block order,
\* and none for a block without an identifier.
C12_OneRecordPerIdentifiedBlock ==
    ParseReturned /\ WellFormed /\ thrown = {} =>
        PmidsOf(parsed) = PmidsOf(SelectSeq(blocksIn, LAMBDA b : Truthy(b.pmid)))

\* three blocks; the middle one has no identifier
C12_Witness ==
    /\ ParseReturned
    /\ WellFormed
    /\ thrown = {}
    /\ Len(blocksIn) = 3
    /\ ~Truthy(blocksIn[2].pmid)
    /\ PmidsOf(parsed) = <<blocksIn[1].pmid, blocksIn[3].pmid>>
    /\ blocksIn[1].pmid # blocksIn[3].pmid

\* C13: an exception thrown while the fields of block k are extracted does
\* not abort parseArticles: block k contributes no record and the other
\* blocks are processed as if block k were absent (N - 1 records when one
\* of N valid blocks throws).
C13_FailingBlockIsolated ==
    ParseReturned =>
        /\ parsed = ParseBlocks(<<>>, Without(articleBlocks, thrown), 1)
        /\ (WellFormed /\ (\A i \in DOMAIN blocksIn : Truthy(blocksIn[i].pmid))
                => Len(parsed) = Len(blocksIn) - Cardinality(thrown))

\* the second of three valid blocks throws
C13_Witness ==
    /\ ParseReturned
    /\ WellFormed
    /\ Len(blocksIn) = 3
    /\ \A i \in DOMAIN blocksIn : Truthy(blocksIn[i].pmid)
    /\ thrown = {2}
    /\ PmidsOf(parsed) = <<blocksIn[1].pmid, blocksIn[3].pmid>>

\* no complete block, or only blocks without a non-empty PMID
ZeroValidBlocks ==
    \/ \A i \in DOMAIN xmlText : xmlText[i] \notin ArticleOpen
    \/ \A i \in DOMAIN xmlText : xmlText[i] \notin ArticleClose
    \/ WellFormed /\ \A i \in DOMAIN blocksIn : ~Truthy(blocksIn[i].pmid)

\* C14: on markup with zero valid blocks, the empty string and text without
\* a <PubmedArticle> delimiter included, parseArticles returns the empty
\* sequence and does not raise: the block list it iterates is an array.
C14_NoValidBlockGivesEmpty ==
    /\ ppc \in {"loop", "returned"} => articleBlocks # Null
    /\ ParseReturned /\ ZeroValidBlocks => parsed = <<>>

\* text that is not empty and has no delimiter
C14_Witness ==
    /\ ParseReturned
    /\ xmlText # <<>>
    /\ \A i \in DOMAIN xmlText : xmlText[i] \notin ArticleOpen
    /\ articleBlocks = <<>>
    /\ parsed = <<>>

\* C18: the abstract of every record parseArticles returns has at most 500
\* characters, whether extracted or the sentinel.
C18_AbstractAtMostLimit ==
    \A i \in DOMAIN parsed : Len(parsed[i].abstract) <= AbstractLimit

\* a truncated abstract next to the sentinel
C18_Witness ==
    /\ ParseReturned
    /\ WellFormed
    /\ Len(parsed) = 2
    /\ blocksIn[1].abstract # Null
    /\ Len(StripTags(blocksIn[1].abstract)) > AbstractLimit
    /\ Len(parsed[1].abstract) = AbstractLimit
    /\ parsed[2].abstract = NoAbstract

\* C19: within the result of one parseArticles call no two records have the
\* same pmid.
C19_PmidUnique ==
    ParseReturned =>
        \A i, j \in DOMAIN parsed : parsed[i].pmid = parsed[j].pmid => i = j

(***************************************************************************)
(* C15, C16: the request handlers                                          *)
(***************************************************************************)
Answered == hpc \in {"responded", "shown"}

\* the identifier step answers, and with no identifier
NoIdentifiers ==
    /\ method = "POST"
    /\ upstream.request = "ok"
    /\ upstream.search.kind \notin {"network_error", "malformed_json"}
    /\ upstream.search.ids \in {Null, <<>>}

\* C15: in both handlers, when the identifier step returns no identifiers
\* the answer is a successful empty article list, and the record fetch,
\* parseArticles and deduplicateArticles are not called.
C15_ShortCircuit ==
    Answered /\ NoIdentifiers =>
        /\ response = Success(<<>>)
        /\ calls = {"identifierSearch"}

\* elink answers with an empty list of links
C15_Witness ==
    /\ Answered
    /\ fn = "get-related-articles"
    /\ method = "POST"
    /\ upstream.request = "ok"
    /\ upstream.search = [kind |-> "ok", ids |-> <<>>]
    /\ response = Success(<<>>)
    /\ calls = {"identifierSearch"}

\* an upstream call of the request failed
UpstreamFailed ==
    /\ method = "POST"
    /\ upstream.request = "ok"
    /\ \/ upstream.search.kind # "ok"
       \/ /\ upstream.search.ids \notin {Null, <<>>}
          /\ upstream.details.kind # "ok"

\* the state of the search page after a successful empty result
PageAfterEmptySuccess == [articles |-> <<>>, loading |-> FALSE]

\* C16: a failing upstream call (network error, HTTP error, malformed JSON)
\* is answered with an error result carrying a message, never with a
\* successful empty article list, and the search page is then in a state
\* other than the one a successful empty result leaves it in.
C16_FailureIsDistinctError ==
    Answered /\ UpstreamFailed =>
        /\ response.status = 500
        /\ response.body.error # Null
        /\ (hpc = "shown" /\ upstream.client = "ok" =>
                [articles |-> pageArticles, loading |-> loading]
                    # PageAfterEmptySuccess)

(***************************************************************************)
(* C17, C20                                                                *)
(***************************************************************************)
\* the records of xs, each with its position in xs as one more field
WithPosition(xs) ==
    [i \in DOMAIN xs |->
        [f \in DOMAIN xs[i] \cup {"pos"} |-> IF f = "pos" THEN i ELSE xs[i][f]]]

\* the positions of the records of xs that deduplicateArticles returns
KeptPositions(xs) ==
    LET out == deduplicateArticles(WithPosition(xs))
    IN  [i \in DOMAIN out |-> out[i].pos]

\* xs with the doi of record k changed from null to '' or from '' to null
SwapDoi(xs, k) ==
    [xs EXCEPT ![k].doi = IF xs[k].doi = Null THEN Empty ELSE Null]

\* C17: a record whose doi is the empty string is treated as one without
\* doi: changing a null doi to '' or '' to null in any record does not
\* change which records deduplicateArticles keeps, and such a record goes
\* through Tier 2 (it leaves doiMap as it is).
C17_EmptyDoiIsNoDoi ==
    Returned =>
        LET kept == KeptPositions(articles)
        IN  \A k \in DOMAIN articles :
                articles[k].doi \in {Null, Empty} =>
                /\ KeptPositions(SwapDoi(articles, k)) = kept
                /\ LoopBody(EmptyMaps, articles[k]).doiMap = <<>>
                /\ LoopBody(EmptyMaps, SwapDoi(articles, k)[k]).doiMap = <<>>

\* a record with doi '' dropped as the Tier-2 duplicate of one with doi null
C17_Witness ==
    /\ Returned
    /\ Len(articles) = 2
    /\ articles[1].doi = Null
    /\ articles[2].doi = Empty
    /\ result = <<articles[1]>>
    /\ KeptPositions(SwapDoi(articles, 2)) = <<1>>

\* C20: deduplicateArticles leaves its input list as it is, and every record
\* it returns is one of the input records, unmodified; the output is never
\* longer than the input.
C20_OutputFromInput ==
    /\ [](Returned =>
            /\ \A i \in DOMAIN result : InSeq(result[i], articles)
            /\ Len(result) <= Len(articles))
    /\ [][articles' = articles]_vars

\* three records of which two are returned
C20_Witness ==
    /\ Returned
    /\ Len(articles) = 3
    /\ Len(result) = 2
    /\ \A i \in DOMAIN result : InSeq(result[i], articles)
    /\ \E i \in DOMAIN articles : ~InSeq(articles[i], result)

(***************************************************************************)
(* C21                                                                     *)
(***************************************************************************)
\* C21: a DOI-less record is dropped only if an earlier accepted DOI-less
\* record has the same composite key, or the same normalized first author
\* and year with a title similarity > 0.85; an accepted DOI-bearing record
\* never causes a DOI-less record to be dropped, whatever its pmid is.
C21_DroppedOnlyForDoiLess ==
    InLoop /\ ~NonBlankDoi(Current) /\ LoopBody(Maps, Current) = Maps =>
        \E i \in DOMAIN accepted :
            /\ ~NonBlankDoi(accepted[i])
            /\ DuplicatesUnderRules(accepted[i], Current)

(***************************************************************************)
(* C22                                                                     *)
(***************************************************************************)
Normalized == npc = "normalized"

Letters == Range(LowerChars) \cup Range(UpperChars)

LettersAndDigits == Letters \cup Range(DigitChars)

\* C22: normalizeString returns a string of lower-case letters, digits and
\* single spaces, with no space at either end: the letters and digits of the
\* input are kept in order, lower-cased, and every other character that is
\* not whitespace, the underscore included, is removed.
C22_NormalizedCharset ==
    Normalized =>
        /\ \A i \in DOMAIN normalized :
              normalized[i] \in Range(LowerChars) \cup Range(DigitChars) \cup {" "}
        /\ \A i \in DOMAIN normalized :
              normalized[i] = " " =>
                  i \notin {1, Len(normalized)} /\ normalized[i + 1] # " "
        /\ SelectSeq(normalized, LAMBDA c : c # " ")
              = ToLowerCase(SelectSeq(raw, LAMBDA c : c \in LettersAndDigits))

(***************************************************************************)
(* C23                                                                     *)
(***************************************************************************)
\* C23: the result of a deduplicateArticles call depends only on its own
\* argument: whatever another call does before it, after it or between its
\* steps, the call returns what it returns when it runs alone.
C23_CallsIndependent ==
    \A c \in Calls :
        frames[c].pc = "returned" =>
            frames[c].result = deduplicateArticles(frames[c].articles)

\* the second call returned a record that the first call, still running,
\* has already stored in its own map
C23_Witness ==
    /\ frames[1].pc = "loop"
    /\ frames[1].idx = 1
    /\ frames[2].pc = "returned"
    /\ Len(frames[2].articles) = 2
    /\ frames[2].articles[1] # frames[1].articles[1]
    /\ frames[2].articles[2] = frames[1].articles[1]
    /\ Len(frames[2].result) = 2
    /\ frames[1].uniqueMap # <<>>

(***************************************************************************)
(* C24                                                                     *)
(***************************************************************************)
\* the display strings of the authors of a block that have both names
ExpectedAuthors(b) ==
    LET both == SelectSeq(b.authors, LAMBDA a : a.fore # Null /\ a.last # Null)
    IN  IF both = <<>> THEN <<UnknownAuthors>>
        ELSE [i \in DOMAIN both |-> both[i].fore \o <<" ">> \o both[i].last]

\* C24: the authors of a record are, in document order, one
\* '{givenName} {surname}' string per author element that has both names,
\* each string made of the two names of one element; an author element
\* without given name neither takes the given name of a following author
\* nor makes a following author disappear.
C24_AuthorsPairedWithinElement ==
    ParseReturned /\ WellFormed /\ thrown = {} =>
        LET identified == SelectSeq(blocksIn, LAMBDA b : Truthy(b.pmid))
        IN  /\ Len(parsed) = Len(identified)
            /\ \A i \in DOMAIN parsed :
                  parsed[i].authors = ExpectedAuthors(identified[i])

(***************************************************************************)
(* C25                                                                     *)
(***************************************************************************)
\* a success response that carries at least one article
AnsweredWithArticles ==
    /\ Answered
    /\ method = "POST"
    /\ response.status = 200
    /\ response.body.articles # <<>>

\* C25: in both handlers, every non-empty article list of a success
\* response is deduplicateArticles of the records parsed from the fetched
\* text: the parsed records pass through deduplicateArticles before they
\* are returned.
C25_ResponseIsDeduplicated ==
    AnsweredWithArticles =>
        /\ "deduplicateArticles" \in calls
        /\ response.body.articles =
               deduplicateArticles(parseArticles(efetchText))

(***************************************************************************)
(* C26                                                                     *)
(***************************************************************************)
\* the output has a record with the normalized DOI of articles[i]
DoiRepresented(i) ==
    \E k \in DOMAIN result :
        NonBlankDoi(result[k]) /\ SameNormalizedDoi(result[k], articles[i])

\* a DOI-less record accepted before articles[i] matches it under Tier 2
MatchedByEarlierDoiLess(i) ==
    \E k \in 1..(i - 1) :
        /\ ~NonBlankDoi(articles[k])
        /\ InSeq(articles[k], accepted)
        /\ DuplicatesUnderRules(articles[k], articles[i])

\* C26: no identity is lost: for every DOI-bearing input record the output
\* has a record with the same normalized DOI, and for every DOI-less input
\* record the output has the record itself or a DOI-less record accepted
\* before it that matches it under Tier 2.
C26_NoIdentityLost ==
    Returned =>
        \A i \in DOMAIN articles :
            IF NonBlankDoi(articles[i])
            THEN DoiRepresented(i)
            ELSE InSeq(articles[i], result) \/ MatchedByEarlierDoiLess(i)

(***************************************************************************)
(* The canvas network view (NetworkVisualization): fetchRelatedArticles,   *)
(* visibleArticles and visibleLinks, and the effect that runs when the     *)
(* articles prop changes.  An article is modelled by its pmid, the only    *)
(* field these read.  The selection, the hovered node and the toasts are   *)
(* not part of the model.                                                  *)
(***************************************************************************)
\* the 20 of visibleArticles
VisibleLimit == 20

\* most fetchRelatedArticles calls waiting at their await at a time
MaxInFlight == 2

\* most changes of the articles prop
MaxRenders == 1

NoNode == "null"

\* the pmids "a", ..., "b"
PmidsFromTo(a, b) == [i \in 1..(b - a + 1) |-> ToString(a + i - 1)]

\* the values of the articles prop: the results of two searches
ArticleProps == { <<"1", "2">>, <<"2", "3">> }

\* the nodes the user clicks
ClickedNodes == {"1", "2", "3", "11"}

\* the related articles the upstream holds for a pmid: those of "1" and of
\* "2" overlap
relatedTo(pmid) ==
    CASE pmid = "1" -> PmidsFromTo(11, 20)
      [] pmid = "2" -> PmidsFromTo(16, 25)
      [] pmid = "3" -> <<"1", "2">>
      [] OTHER -> PmidsFromTo(26, 30)

\* what invoke('get-related-articles') settles with: an error, or data
Answers(pmid) ==
    { [error |-> TRUE, articles |-> <<>>],
      [error |-> FALSE, articles |-> <<>>],
      [error |-> FALSE, articles |-> relatedTo(pmid)] }

\* lines 101-116
visibleArticles ==
    IF Len(allArticles) <= VisibleLimit THEN allArticles
    ELSE LET expanded == SelectSeq(allArticles, LAMBDA a : a \in expandedNodes)
             remaining == SelectSeq(allArticles, LAMBDA a : a \notin expandedNodes)
             selectedArticles ==
                 IF Len(expanded) < VisibleLimit
                 THEN expanded \o Slice(remaining, VisibleLimit - Len(expanded))
                 ELSE expanded
         IN  Slice(selectedArticles, VisibleLimit)

\* line 119
visiblePmidsSet == Range(visibleArticles)

\* lines 120-123
visibleLinks ==
    LET visible == visiblePmidsSet
    IN  SelectSeq(allLinks, LAMBDA link :
            link.source \in visible /\ link.target \in visible)

InitCanvas ==
    /\ allArticles \in ArticleProps
    /\ expandedNodes = {}
    /\ loadingNode = NoNode
    /\ allLinks = <<>>
    /\ inFlight = EmptyBag
    /\ renders = 0
    /\ settled = <<>>
    /\ DedupIdle /\ LevIdle /\ ParseIdle /\ HandlerIdle /\ NormIdle
    /\ FramesIdle /\ PathIdle

\* lines 38-42: the search page passes the articles of another search
ArticlesChanged(articlesProp) ==
    /\ renders < MaxRenders
    /\ renders' = renders + 1
    /\ allArticles' = articlesProp
    /\ expandedNodes' = {}
    /\ allLinks' = <<>>
    /\ UNCHANGED <<loadingNode, inFlight, settled>>
    /\ UNCHANGED exceptCanvas

\* lines 45-56, from the click on a drawn node to the await: the call keeps
\* the allArticles of the render it was made in.  On an expanded node the
\* call returns at line 48 and changes nothing.
StartFetch(pmid) ==
    /\ pmid \in visiblePmidsSet
    /\ pmid \notin expandedNodes
    /\ BagCardinality(inFlight) < MaxInFlight
    /\ loadingNode' = pmid
    /\ inFlight' = inFlight (+)
           SetToBag({[pmid |-> pmid, existingPmids |-> Range(allArticles)]})
    /\ UNCHANGED <<allArticles, expandedNodes, allLinks, renders, settled>>
    /\ UNCHANGED exceptCanvas

\* line 70
NewArticles(call, relatedArticles) ==
    SelectSeq(relatedArticles, LAMBDA a : a \notin call.existingPmids)

\* lines 83-86
NewLinks(call, newArticles) ==
    [i \in DOMAIN newArticles |-> [source |-> call.pmid, target |-> newArticles[i]]]

\* lines 58-97, from the await to the end of the call, with what the
\* invoke settled with
Settle(call, data) ==
    /\ BagIn(call, inFlight)
    /\ inFlight' = inFlight (-) SetToBag({call})
    /\ loadingNode' = NoNode
    /\ settled' = [pmid |-> call.pmid, error |-> data.error,
                   articles |-> data.articles]
    /\ LET newArticles == NewArticles(call, data.articles)
       IN  CASE data.error \/ data.articles = <<>> ->
                   UNCHANGED <<allArticles, allLinks, expandedNodes>>
             [] ~data.error /\ data.articles # <<>> /\ newArticles = <<>> ->
                   /\ expandedNodes' = expandedNodes \cup {call.pmid}
                   /\ UNCHANGED <<allArticles, allLinks>>
             [] OTHER ->
                   /\ allArticles' = allArticles \o newArticles
                   /\ allLinks' = allLinks \o NewLinks(call, newArticles)
                   /\ expandedNodes' = expandedNodes \cup {call.pmid}
    /\ UNCHANGED renders
    /\ UNCHANGED exceptCanvas

FinishFetch(call) == \E data \in Answers(call.pmid) : Settle(call, data)

NextCanvas ==
    \/ \E articlesProp \in ArticleProps : ArticlesChanged(articlesProp)
    \/ \E pmid \in ClickedNodes : StartFetch(pmid)
    \/ \E call \in BagToSet(inFlight) : FinishFetch(call)

SpecCanvas == InitCanvas /\ [][NextCanvas]_vars

(***************************************************************************)
(* C27                                                                     *)
(***************************************************************************)
\* C27: allArticles never holds two articles with the same pmid, whatever
\* the order of the clicks on nodes and of the completions of the
\* related-article fetches is, two fetches waiting at the same time
\* included.
C27_AllArticlesPmidUnique ==
    \A i, j \in DOMAIN allArticles : allArticles[i] = allArticles[j] => i = j

\* every invoke settles: its promise is resolved or rejected
Settles == \E call \in BagToSet(inFlight) : FinishFetch(call)

SpecCanvasLive == SpecCanvas /\ WF_vars(Settles)

(***************************************************************************)
(* C28                                                                     *)
(***************************************************************************)
FetchInFlight == inFlight # EmptyBag

\* loadingNode is set while a fetch waits and null when none does
LoadingWhileInFlight == FetchInFlight <=> loadingNode # NoNode

\* a node enters expandedNodes in the step in which a fetch for it settles
\* without error and with at least one related article
ExpandedOnSuccess ==
    \A pmid \in expandedNodes' \ expandedNodes :
        /\ \E call \in BagToSet(inFlight) :
              call.pmid = pmid /\ inFlight' = inFlight (-) SetToBag({call})
        /\ settled'.pmid = pmid
        /\ ~settled'.error
        /\ settled'.articles # <<>>

\* C28: loadingNode is non-null whenever at least one related-articles
\* fetch is in flight and null once none is; every started fetch, however
\* it ends, leads to the loading indicator being cleared; and a node is
\* added to expandedNodes only by a fetch for it that succeeded with at
\* least one related article.
C28_LoadingTracksFetches ==
    /\ [](LoadingWhileInFlight)
    /\ (FetchInFlight ~> loadingNode = NoNode)
    /\ [][ExpandedOnSuccess]_vars

(***************************************************************************)
(* C29                                                                     *)
(***************************************************************************)
\* C29: visibleArticles never holds more than 20 articles; whenever at
\* most 20 nodes are expanded, the article of every expanded node is among
\* the visible articles; and every link of visibleLinks has its source and
\* its target among the visible articles.
C29_VisibleWithinLimit ==
    LET visible == visiblePmidsSet
        links == visibleLinks
    IN  /\ Len(visibleArticles) <= VisibleLimit
        /\ (Cardinality(expandedNodes) <= VisibleLimit =>
                expandedNodes \subseteq visible)
        /\ \A i \in DOMAIN links :
              links[i].source \in visible /\ links[i].target \in visible

(***************************************************************************)
(* findPath of the d3 network view: a breadth-first walk over allLinks,    *)
(* taken in both directions, to at most maxDepth links from startId.       *)
(***************************************************************************)
\* most links of allLinks, the cycles of three links apart
MaxLinks == 2

\* largest maxDepth
MaxPathDepth == 2

NodeIds == {"1", "2", "3"}

\* a link with string ends: the walk reads source and target only
LinkPool == [source : NodeIds, target : NodeIds]

Link(s, t) == [source |-> s, target |-> t]

\* link sets with a cycle of three nodes, and with a cycle of two and a tail
CyclicLinks ==
    { <<Link("1", "2"), Link("2", "3"), Link("3", "1")>>,
      <<Link("2", "1"), Link("1", "2"), Link("3", "2")>> }

InitPath ==
    /\ graphLinks \in ListsUpTo(LinkPool, MaxLinks) \cup CyclicLinks
    /\ startId \in NodeIds
    /\ maxDepth \in 0..MaxPathDepth
    /\ visited = {}
    /\ queue = <<[nodeId |-> startId, depth |-> 0]>>
    /\ pathNodes = {}
    /\ pathLinks = {}
    /\ fpc = "loop"
    /\ DedupIdle /\ LevIdle /\ ParseIdle /\ HandlerIdle /\ NormIdle
    /\ FramesIdle /\ CanvasIdle

\* lines 118-124: the node a link leads to from nodeId, with seen the
\* visited set; "null" when the link does not touch nodeId or leads back
ConnectedForwardOnly(link, nodeId, seen) ==
    IF link.source = nodeId /\ link.target \notin seen THEN link.target
    ELSE "null"

ConnectedNode(link, nodeId, seen) ==
    IF link.source = nodeId /\ link.target \notin seen THEN link.target
    ELSE IF link.target = nodeId /\ link.source \notin seen THEN link.source
    ELSE "null"

\* lines 111-132: allLinks.forEach for the node taken from the queue; st
\* holds queue, pathNodes and pathLinks
RECURSIVE ForEachLink(_, _, _, _, _)
ForEachLink(links, i, nodeId, depth, st) ==
    IF i > Len(links) THEN st
    ELSE LET connectedNode == ConnectedNode(links[i], nodeId, st.visited)
             next ==
                 IF connectedNode # "null" /\ depth < maxDepth
                 THEN [st EXCEPT
                          !.pathNodes = @ \cup {connectedNode},
                          !.pathLinks = @ \cup {<<links[i].source, links[i].target>>},
                          !.queue = Append(@, [nodeId |-> connectedNode,
                                               depth |-> depth + 1])]
                 ELSE st
         IN  ForEachLink(links, i + 1, nodeId, depth, next)

\* lines 105-108: queue.shift() of an entry that is visited or too deep
SkipEntry ==
    /\ fpc = "loop"
    /\ queue # <<>>
    /\ Head(queue).nodeId \in visited \/ Head(queue).depth > maxDepth
    /\ queue' = Tail(queue)
    /\ UNCHANGED <<graphLinks, startId, maxDepth, visited, pathNodes, pathLinks, fpc>>
    /\ UNCHANGED exceptPath

\* lines 105-133: one iteration of the while loop that visits a node
VisitEntry ==
    /\ fpc = "loop"
    /\ queue # <<>>
    /\ Head(queue).nodeId \notin visited
    /\ Head(queue).depth <= maxDepth
    /\ LET entry == Head(queue)
           st == ForEachLink(graphLinks, 1, entry.nodeId, entry.depth,
                     [visited |-> visited \cup {entry.nodeId},
                      queue |-> Tail(queue),
                      pathNodes |-> pathNodes \cup {entry.nodeId},
                      pathLinks |-> pathLinks])
       IN  /\ visited' = st.visited
           /\ queue' = st.queue
           /\ pathNodes' = st.pathNodes
           /\ pathLinks' = st.pathLinks
    /\ UNCHANGED <<graphLinks, startId, maxDepth, fpc>>
    /\ UNCHANGED exceptPath

\* lines 104, 136
ReturnPath ==
    /\ fpc = "loop"
    /\ queue = <<>>
    /\ fpc' = "returned"
    /\ UNCHANGED <<graphLinks, startId, maxDepth, visited, queue, pathNodes, pathLinks>>
    /\ UNCHANGED exceptPath

NextPath == SkipEntry \/ VisitEntry \/ ReturnPath

SpecPath == InitPath /\ [][NextPath]_vars

\* the call runs on: a synchronous loop is not suspended
SpecPathLive == SpecPath /\ WF_vars(NextPath)

(***************************************************************************)
(* C30                                                                     *)
(***************************************************************************)
\* the nodes a link joins to a node of S, in either direction
Neighbours(S) ==
    { graphLinks[i].target : i \in {k \in DOMAIN graphLinks : graphLinks[k].source \in S} }
    \cup
    { graphLinks[i].source : i \in {k \in DOMAIN graphLinks : graphLinks[k].target \in S} }

\* the nodes at undirected distance at most d from startId
RECURSIVE WithinDistance(_)
WithinDistance(d) ==
    IF d = 0 THEN {startId}
    ELSE LET near == WithinDistance(d - 1) IN near \cup Neighbours(near)

PathReturned == fpc = "returned"

\* C30: findPath terminates on every finite link set, cyclic ones
\* included, and the nodes it returns are exactly the node ids at
\* undirected shortest-path distance at most maxDepth from startId over
\* allLinks, startId always among them.
C30_NodesWithinDepth ==
    /\ [](PathReturned =>
            /\ pathNodes = WithinDistance(maxDepth)
            /\ startId \in pathNodes)
    /\ <>PathReturned

\* a walk over links that form a cycle, one of them taken against its
\* direction, which leaves out the node two links away
C30_Witness ==
    /\ PathReturned
    /\ maxDepth = 1
    /\ startId = "1"
    /\ graphLinks = <<Link("2", "1"), Link("1", "2"), Link("3", "2")>>
    /\ pathNodes = {"1", "2"}

=============================================================================
